---- MODULE Spec2Model ----
(***************************************************************************)
(* Model of the user-registration API of main.py: four signup endpoints    *)
(* over one MongoDB collection, plus the count and listing endpoints.      *)
(*                                                                         *)
(* Text (a Python str) is a sequence of Unicode code points, so that       *)
(* len(), the UTF-8 encoding and the phone pattern are computed as the     *)
(* code computes them.  A request is handled by a worker: the framework    *)
(* validates the body against the endpoint's schema and then runs the      *)
(* handler, whose store operations (find_one, find_one, insert_one) are    *)
(* separate steps.  The handlers contain no await, so one server process   *)
(* runs them one after another; store operations of different server       *)
(* processes sharing the collection interleave.                            *)
(***************************************************************************)
EXTENDS Integers, Sequences, FiniteSets, TLC

VARIABLES collection, pc, request, response, succeeded

vars == <<collection, pc, request, response, succeeded>>

(***************************************************************************)
(* Text                                                                    *)
(***************************************************************************)

\* Python None: a value that is no str.
None == << -1 >>

\* The str made of n copies of code point c.
Str(c, n) == [i \in 1..n |-> c]

\* Number of bytes of the UTF-8 encoding of one code point.
Utf8Width(c) == IF c < 128 THEN 1 ELSE IF c < 2048 THEN 2 ELSE IF c < 65536 THEN 3 ELSE 4

RECURSIVE Utf8Len(_)
\* len(s.encode('utf-8'))
Utf8Len(s) == IF s = <<>> THEN 0 ELSE Utf8Width(Head(s)) + Utf8Len(Tail(s))

\* \d of a str pattern is Unicode-aware: ASCII 0-9 and the other decimal
\* digits, of which the Arabic-Indic block stands for the rest.
IsDigit(c) == c \in 48..57 \/ c \in 1632..1641

\* The pattern \+92 \d{11} applied to s[1..15].
PhonePrefixMatch(s) ==
    /\ Len(s) >= 15
    /\ s[1] = 43 /\ s[2] = 57 /\ s[3] = 50 /\ s[4] = 32
    /\ \A i \in 5..15 : IsDigit(s[i])

\* Field(pattern=r'^\+92 \d{11}$'): the anchors match the ends of the text only.
PhonePattern(s) == PhonePrefixMatch(s) /\ Len(s) = 15

\* re.match(r'^\+92 \d{11}$', v): Python's $ also matches before a final newline.
ReMatchPhone(v) ==
    /\ PhonePrefixMatch(v)
    /\ \/ Len(v) = 15
       \/ Len(v) = 16 /\ v[16] = 10

\* validate_phone of AdminSignup, SchoolCollegeSignup and PromoterSignup.
validate_phone(v) == ReMatchPhone(v)

\* validate_phone of StudentSignup: None passes.
validate_phone_optional(v) == v = None \/ ReMatchPhone(v)

\* EmailStr, as far as the model's addresses need it: one @, a non-empty
\* local part, and a domain with an inner period.
EmailStr(s) ==
    /\ Cardinality({i \in 1..Len(s) : s[i] = 64}) = 1
    /\ LET at == CHOOSE i \in 1..Len(s) : s[i] = 64
       IN  /\ at > 1
           /\ \E j \in (at + 2)..(Len(s) - 1) : s[j] = 46

PasswordMinLength == 8
PasswordMaxLength == 72

\* PasswordField with the bounds applied to the encoded length (what C5 must
\* tell from the field's behaviour).
PasswordFieldBytes(s) == Utf8Len(s) >= PasswordMinLength /\ Utf8Len(s) <= PasswordMaxLength

\* Field(..., min_length=8, max_length=72): len() of the str, i.e. code points.
PasswordField(s) == Len(s) >= PasswordMinLength /\ Len(s) <= PasswordMaxLength

\* Field(..., min_length=lo, max_length=hi) of the name fields.
LengthField(s, lo, hi) == s # None /\ Len(s) >= lo /\ Len(s) <= hi

\* Field(..., min_length=lo)
MinLengthField(s, lo) == s # None /\ Len(s) >= lo

(***************************************************************************)
(* Schemas                                                                 *)
(***************************************************************************)

AdminSignup(user) ==
    /\ EmailStr(user.email)
    /\ PasswordField(user.password)
    /\ user.phone # None /\ PhonePattern(user.phone) /\ validate_phone(user.phone)
    /\ LengthField(user.name, 2, 100)

StudentSignup(user) ==
    /\ EmailStr(user.email)
    /\ PasswordField(user.password)
    /\ user.phone # None => PhonePattern(user.phone)
    /\ validate_phone_optional(user.phone)
    /\ LengthField(user.name, 2, 100)
    /\ MinLengthField(user.institution_name, 2)

SchoolCollegeSignup(user) ==
    /\ EmailStr(user.email)
    /\ PasswordField(user.password)
    /\ user.phone # None /\ PhonePattern(user.phone) /\ validate_phone(user.phone)
    /\ LengthField(user.institute_name, 2, 200)
    /\ MinLengthField(user.address, 5)

PromoterSignup(user) ==
    /\ EmailStr(user.email)
    /\ PasswordField(user.password)
    /\ user.phone # None /\ PhonePattern(user.phone) /\ validate_phone(user.phone)
    /\ LengthField(user.name, 2, 100)

\* The schema of each endpoint.
Schema(op, user) ==
    CASE op = "admin_signup" -> AdminSignup(user)
      [] op = "student_signup" -> StudentSignup(user)
      [] op = "school_college_signup" -> SchoolCollegeSignup(user)
      [] op = "promoter_signup" -> PromoterSignup(user)

(***************************************************************************)
(* Password hashing                                                        *)
(***************************************************************************)

\* The UTF-8 bytes of one code point.
Utf8Bytes(c) ==
    IF c < 128 THEN << c >>
    ELSE IF c < 2048 THEN << 192 + (c \div 64), 128 + (c % 64) >>
    ELSE IF c < 65536 THEN << 224 + (c \div 4096), 128 + ((c \div 64) % 64), 128 + (c % 64) >>
    ELSE << 240 + (c \div 262144), 128 + ((c \div 4096) % 64),
            128 + ((c \div 64) % 64), 128 + (c % 64) >>

RECURSIVE Utf8Encode(_)
\* password.encode('utf-8')
Utf8Encode(s) == IF s = <<>> THEN <<>> ELSE Utf8Bytes(Head(s)) \o Utf8Encode(Tail(s))

\* hashlib.sha256(...).hexdigest() then pwd_context.hash(...): an opaque value
\* that is a function of the encoded password (the per-call salt is left out).
hash_password(password) == [scheme |-> "bcrypt", sha256 |-> Utf8Encode(password)]

(***************************************************************************)
(* The collection                                                          *)
(***************************************************************************)

\* The id the driver generates for the n-th inserted document.
ObjectId(n) == [oid |-> n]

RECURSIVE Digits(_)
Digits(n) == IF n < 10 THEN << 48 + n >> ELSE Append(Digits(n \div 10), 48 + (n % 10))

\* str(ObjectId)
StrObjectId(o) == Digits(o.oid)

\* Matches with a filter on email that matches nothing (what C2 must tell
\* from the lookup's behaviour).
MatchesPhoneOnly(doc, field, value) ==
    /\ field # "email"
    /\ IF value = None
       THEN field \notin DOMAIN doc \/ doc[field] = None
       ELSE field \in DOMAIN doc /\ doc[field] = value

\* Whether a document matches the filter {field: value}.  A filter on None
\* matches a document in which the field is None or missing.
Matches(doc, field, value) ==
    IF value = None
    THEN field \notin DOMAIN doc \/ doc[field] = None
    ELSE field \in DOMAIN doc /\ doc[field] = value

\* collection.find_one({field: value}): << >> for None, else the first match.
find_one(docs, field, value) ==
    LET hits == {i \in 1..Len(docs) : Matches(docs[i], field, value)}
    IN  IF hits = {} THEN << >>
        ELSE << docs[CHOOSE i \in hits : \A j \in hits : i <= j] >>

\* Truth value of a find_one result.
Found(existing_user) == existing_user # << >>

\* insert_one under a unique index on email: a document whose email is
\* stored is not added (what C6 must tell from the store's behaviour).
insert_one_unique_email(docs, document) ==
    IF \E i \in 1..Len(docs) : docs[i].email = document.email
    THEN docs
    ELSE Append(docs, ("_id" :> ObjectId(Len(docs) + 1)) @@ document)

\* collection.insert_one(document): no index but the one on _id exists, so
\* the document is stored whatever the collection holds.
insert_one(docs, document) ==
    Append(docs, ("_id" :> ObjectId(Len(docs) + 1)) @@ document)

\* collection.count_documents({"user_type": t})
count_documents(docs, t) ==
    Cardinality({i \in 1..Len(docs) : "user_type" \in DOMAIN docs[i] /\ docs[i].user_type = t})

\* ListedUser with the projection {"password_hash": 0} (what C9 must tell
\* from the listing's behaviour).
ListedUserWrongKey(doc) ==
    [f \in DOMAIN doc \ {"password_hash"} |->
        IF f = "_id" THEN StrObjectId(doc[f]) ELSE doc[f]]

\* collection.find({}, {"password": 0}) and the conversion of _id to str.
ListedUser(doc) ==
    [f \in DOMAIN doc \ {"password"} |->
        IF f = "_id" THEN StrObjectId(doc[f]) ELSE doc[f]]

(***************************************************************************)
(* Handlers                                                                *)
(***************************************************************************)

\* "ADMIN2024SECRET"
ADMIN_SECRET_CODE == << 65, 68, 77, 73, 78, 50, 48, 50, 52, 83, 69, 67, 82, 69, 84 >>

SignupOps == {"admin_signup", "student_signup", "school_college_signup", "promoter_signup"}

\* The str in lower case (ASCII).
Lower(s) == [i \in 1..Len(s) |-> IF s[i] \in 65..90 THEN s[i] + 32 ELSE s[i]]

\* AdminCodeOk comparing without regard to case (what C4 must tell from the
\* check's behaviour).
AdminCodeOkAnyCase(op, user) ==
    op = "admin_signup" => Lower(user.admin_code) = Lower(ADMIN_SECRET_CODE)

\* The admin code check of admin_signup; the other handlers have none.
AdminCodeOk(op, user) == op = "admin_signup" => user.admin_code = ADMIN_SECRET_CODE

\* UserType with the literal school_college, which get_users_count does not
\* count (what C8 must tell from the handlers' behaviour).
UserTypeUnderscore(op) ==
    CASE op = "admin_signup" -> "admin"
      [] op = "student_signup" -> "student"
      [] op = "school_college_signup" -> "school_college"
      [] op = "promoter_signup" -> "promoter"

\* The user_type literal each handler stores.
UserType(op) ==
    CASE op = "admin_signup" -> "admin"
      [] op = "student_signup" -> "student"
      [] op = "school_college_signup" -> "school/college"
      [] op = "promoter_signup" -> "promoter"

\* AdminDocument storing the record as inactive (what C1 must tell from the
\* handler's behaviour).
AdminDocumentInactive(user) ==
    [email |-> user.email, password |-> hash_password(user.password),
     phone |-> user.phone, name |-> user.name,
     user_type |-> UserType("admin_signup"), is_active |-> FALSE]

AdminDocument(user) ==
    [email |-> user.email, password |-> hash_password(user.password),
     phone |-> user.phone, name |-> user.name,
     user_type |-> UserType("admin_signup"), is_active |-> TRUE]

StudentDocument(user) ==
    LET base == [email |-> user.email, password |-> hash_password(user.password),
                 name |-> user.name, user_type |-> UserType("student_signup"),
                 is_active |-> TRUE, institution_name |-> user.institution_name]
    IN  IF user.phone # None THEN ("phone" :> user.phone) @@ base ELSE base

\* SchoolCollegeDocument with the literal school_college (what C10 must tell
\* from the handler's behaviour).
SchoolCollegeDocumentUnderscore(user) ==
    LET base == [email |-> user.email, password |-> hash_password(user.password),
                 phone |-> user.phone, institute_name |-> user.institute_name,
                 user_type |-> "school_college", is_active |-> TRUE,
                 address |-> user.address]
    IN  IF user.head_of_institute # None
        THEN ("head_of_institute" :> user.head_of_institute) @@ base ELSE base

SchoolCollegeDocument(user) ==
    LET base == [email |-> user.email, password |-> hash_password(user.password),
                 phone |-> user.phone, institute_name |-> user.institute_name,
                 user_type |-> UserType("school_college_signup"), is_active |-> TRUE,
                 address |-> user.address]
    IN  IF user.head_of_institute # None
        THEN ("head_of_institute" :> user.head_of_institute) @@ base ELSE base

PromoterDocument(user) ==
    [email |-> user.email, password |-> hash_password(user.password),
     phone |-> user.phone, name |-> user.name,
     user_type |-> UserType("promoter_signup"), is_active |-> TRUE]

UserDocument(op, user) ==
    CASE op = "admin_signup" -> AdminDocument(user)
      [] op = "student_signup" -> StudentDocument(user)
      [] op = "school_college_signup" -> SchoolCollegeDocument(user)
      [] op = "promoter_signup" -> PromoterDocument(user)

SuccessMessage(op) ==
    CASE op = "admin_signup" -> "Admin registered successfully!"
      [] op = "student_signup" -> "Student registered successfully!"
      [] op = "school_college_signup" -> "School/College registered successfully!"
      [] op = "promoter_signup" -> "Promoter registered successfully!"

\* UserResponse(id=str(result.inserted_id), email=..., user_type=..., message=...)
UserResponse(op, user, docs) ==
    [status |-> 201,
     id |-> StrObjectId(docs[Len(docs)]["_id"]),
     email |-> user.email,
     user_type |-> UserDocument(op, user).user_type,
     message |-> SuccessMessage(op)]

\* HTTPException(status_code, detail), and the framework's own error responses.
Error(code, text) == [status |-> code, detail |-> text]

(***************************************************************************)
(* Requests                                                                *)
(***************************************************************************)

\* Bound on the size of the collection at which requests are still received.
MaxUsers == 3

\* "a@x.pk", "b@x.pk", "c@x.pk" and, for a rejected address, "ax.pk".
EmailA == << 97, 64, 120, 46, 112, 107 >>
EmailB == << 98, 64, 120, 46, 112, 107 >>
EmailC == << 99, 64, 120, 46, 112, 107 >>
EmailBad == << 97, 120, 46, 112, 107 >>

\* "+92 12345678910", "+92 12345678911" and, rejected, "+92 1234567891".
PhoneA == << 43, 57, 50, 32, 49, 50, 51, 52, 53, 54, 55, 56, 57, 49, 48 >>
PhoneB == << 43, 57, 50, 32, 49, 50, 51, 52, 53, 54, 55, 56, 57, 49, 49 >>
PhoneBad == << 43, 57, 50, 32, 49, 50, 51, 52, 53, 54, 55, 56, 57, 49 >>

\* Passwords: the shortest accepted one ("aaaaaaaa"), and the ones at the
\* limits: 7 and 73 ASCII letters, 4 and 72 two-byte letters (U+00E9).
PasswordOk == Str(97, PasswordMinLength)
Passwords ==
    {PasswordOk, Str(97, PasswordMinLength - 1), Str(97, PasswordMaxLength + 1),
     Str(233, 4), Str(233, PasswordMaxLength)}

\* "Ali", "ABC School", "Karachi, Pakistan" are stood for by short texts.
NameOk == << 65, 108, 105 >>
NameBad == << 65 >>
AddressOk == << 75, 104, 105, 32, 80, 75 >>

\* "admin2024secret": the secret in another case.
AdminCodeLower == << 97, 100, 109, 105, 110, 50, 48, 50, 52, 115, 101, 99, 114, 101, 116 >>

\* Request bodies of one endpoint: every combination of the given addresses,
\* phones and (for admin) codes with otherwise valid fields, and the bodies
\* that differ from the valid body (EmailA, PhoneA) in one other field.
Bodies(op, emails, phones, codes) ==
    CASE op = "admin_signup" ->
            {[email |-> e, password |-> PasswordOk, phone |-> p, name |-> NameOk, admin_code |-> c] :
                e \in emails, p \in phones, c \in codes}
            \cup {[email |-> EmailA, password |-> w, phone |-> PhoneA, name |-> n, admin_code |-> c] :
                    w \in Passwords, n \in {NameOk}, c \in codes}
            \cup {[email |-> e, password |-> PasswordOk, phone |-> p, name |-> n,
                   admin_code |-> ADMIN_SECRET_CODE] :
                    e \in {EmailBad}, p \in {PhoneA}, n \in {NameOk}}
            \cup {[email |-> EmailA, password |-> PasswordOk, phone |-> p, name |-> n,
                   admin_code |-> ADMIN_SECRET_CODE] :
                    p \in {PhoneA, PhoneBad}, n \in {NameOk, NameBad}}
      [] op = "student_signup" ->
            {[email |-> e, password |-> PasswordOk, phone |-> p, name |-> NameOk,
              institution_name |-> NameOk] : e \in emails, p \in phones \cup {None}}
            \cup {[email |-> e, password |-> w, phone |-> PhoneA, name |-> NameOk,
                   institution_name |-> NameOk] : e \in {EmailA, EmailBad}, w \in Passwords}
            \cup {[email |-> EmailA, password |-> PasswordOk, phone |-> p, name |-> n,
                   institution_name |-> i] :
                    p \in {PhoneA, PhoneBad}, n \in {NameOk, NameBad}, i \in {NameOk, NameBad}}
      [] op = "school_college_signup" ->
            {[email |-> e, password |-> PasswordOk, phone |-> p, institute_name |-> NameOk,
              address |-> AddressOk, head_of_institute |-> None] : e \in emails, p \in phones}
            \cup {[email |-> e, password |-> w, phone |-> PhoneA, institute_name |-> NameOk,
                   address |-> AddressOk, head_of_institute |-> h] :
                    e \in {EmailA, EmailBad}, w \in Passwords, h \in {None, NameOk}}
            \cup {[email |-> EmailA, password |-> PasswordOk, phone |-> p, institute_name |-> n,
                   address |-> a, head_of_institute |-> None] :
                    p \in {PhoneA, PhoneBad}, n \in {NameOk, NameBad}, a \in {AddressOk, NameOk}}
      [] op = "promoter_signup" ->
            {[email |-> e, password |-> PasswordOk, phone |-> p, name |-> NameOk] :
                e \in emails, p \in phones}
            \cup {[email |-> e, password |-> w, phone |-> PhoneA, name |-> NameOk] :
                    e \in {EmailA, EmailBad}, w \in Passwords}
            \cup {[email |-> EmailA, password |-> PasswordOk, phone |-> p, name |-> n] :
                    p \in {PhoneA, PhoneBad}, n \in {NameOk, NameBad}}

\* The request bodies sent when requests are handled one after another.
Requests(op) == Bodies(op, {EmailA, EmailB, EmailC}, {PhoneA, PhoneB}, {ADMIN_SECRET_CODE, AdminCodeLower})

\* Bound on the collection's size plus the requests in flight, when requests
\* are handled concurrently.
MaxConcurrentUsers == 3

\* The request bodies sent concurrently: valid ones that collide on the
\* address (EmailA) or on the phone (PhoneA), and a student without phone.
ConcurrentRequests(op) ==
    {b \in Bodies(op, {EmailA, EmailB}, {PhoneA, PhoneB}, {ADMIN_SECRET_CODE}) :
        /\ Schema(op, b)
        /\ b.password = PasswordOk
        /\ \/ op = "promoter_signup" /\ <<b.email, b.phone>> \in {<<EmailA, PhoneA>>, <<EmailB, PhoneA>>}
           \/ op = "admin_signup" /\ <<b.email, b.phone>> = <<EmailA, PhoneB>>
           \/ op = "student_signup" /\ <<b.email, b.phone>> = <<EmailB, None>>}

(***************************************************************************)
(* State                                                                   *)
(***************************************************************************)

\* Server processes sharing the collection.
Workers == {"w1", "w2"}

NoRequest == [op |-> "none"]
NoResponse == [status |-> 0]

Idle(w) == pc[w] = "idle"

\* No request is being handled by w: it waits, or has just answered.
Quiet(w) == pc[w] \in {"idle", "done"}

InFlight == Cardinality({w \in Workers : ~Quiet(w)})

Init ==
    /\ collection = << >>
    /\ pc = [w \in Workers |-> "idle"]
    /\ request = [w \in Workers |-> NoRequest]
    /\ response = [w \in Workers |-> NoResponse]
    /\ succeeded = [op \in SignupOps |-> 0]

\* The request ends with response r.
Respond(w, r) ==
    /\ response' = [response EXCEPT ![w] = r]
    /\ pc' = [pc EXCEPT ![w] = "done"]

\* The handler moves on to its next store operation.
Goto(w, label) ==
    /\ pc' = [pc EXCEPT ![w] = label]
    /\ UNCHANGED response

(***************************************************************************)
(* Steps of a signup request                                               *)
(***************************************************************************)

\* The framework validates the body against the schema (422 on failure) and
\* calls the handler, which starts with the admin code check (admin only).
Receive(w, op, user) ==
    /\ Idle(w)
    /\ request' = [request EXCEPT ![w] = [op |-> op, user |-> user]]
    /\ IF ~Schema(op, user) THEN Respond(w, Error(422, "Unprocessable Entity"))
       ELSE IF ~AdminCodeOk(op, user)
            THEN Respond(w, Error(403, "Invalid admin code. Access denied!"))
       ELSE /\ pc' = [pc EXCEPT ![w] = "find_email"]
            /\ response' = [response EXCEPT ![w] = NoResponse]
    /\ UNCHANGED <<collection, succeeded>>

\* existing_user = collection.find_one({"email": user.email}).  The call is
\* outside the try block: if the store fails, the framework answers 500.
FindEmail(w) ==
    /\ pc[w] = "find_email"
    /\ \E up \in BOOLEAN :
        IF ~up THEN Respond(w, Error(500, "Internal Server Error"))
        ELSE IF Found(find_one(collection, "email", request[w].user.email))
             THEN Respond(w, Error(400, "Email already registered!"))
        ELSE Goto(w, "find_phone")
    /\ UNCHANGED <<collection, request, succeeded>>

\* FindPhone without the lookup (what C7 must tell from the handler's
\* behaviour).
FindPhoneSkipped(w) ==
    /\ pc[w] = "find_phone"
    /\ Goto(w, "insert_one")
    /\ UNCHANGED <<collection, request, succeeded>>

\* existing_user = collection.find_one({"phone": user.phone})
FindPhone(w) ==
    /\ pc[w] = "find_phone"
    /\ \E up \in BOOLEAN :
        IF ~up THEN Respond(w, Error(500, "Internal Server Error"))
        ELSE IF Found(find_one(collection, "phone", request[w].user.phone))
             THEN Respond(w, Error(400, "Phone number already registered!"))
        ELSE Goto(w, "insert_one")
    /\ UNCHANGED <<collection, request, succeeded>>

\* The user_document is built and inserted; an exception of insert_one is
\* answered with 500 "Registration failed: ...".
InsertOne(w) ==
    /\ pc[w] = "insert_one"
    /\ LET op == request[w].op
           user == request[w].user
           docs == insert_one(collection, UserDocument(op, user))
       IN  \E up \in BOOLEAN :
            IF up
            THEN /\ collection' = docs
                 /\ Respond(w, UserResponse(op, user, docs))
                 /\ succeeded' = [succeeded EXCEPT ![op] = @ + 1]
            ELSE /\ Respond(w, Error(500, "Registration failed: ServerSelectionTimeoutError"))
                 /\ UNCHANGED <<collection, succeeded>>
    /\ UNCHANGED request

(***************************************************************************)
(* The read-only endpoints                                                 *)
(***************************************************************************)

\* The counts are read in one step.
GetUsersCount(w) ==
    /\ Idle(w)
    /\ request' = [request EXCEPT ![w] = [op |-> "get_users_count"]]
    /\ \E up \in BOOLEAN :
        IF up
        THEN Respond(w, [status |-> 200,
                         total_users |-> Len(collection),
                         admins |-> count_documents(collection, "admin"),
                         students |-> count_documents(collection, "student"),
                         schools_colleges |-> count_documents(collection, "school/college"),
                         promoters |-> count_documents(collection, "promoter")])
        ELSE Respond(w, Error(500, "Failed to fetch user count: ServerSelectionTimeoutError"))
    /\ UNCHANGED <<collection, succeeded>>

GetAllUsers(w) ==
    /\ Idle(w)
    /\ request' = [request EXCEPT ![w] = [op |-> "get_all_users"]]
    /\ \E up \in BOOLEAN :
        IF up
        THEN LET users == [i \in 1..Len(collection) |-> ListedUser(collection[i])]
             IN  Respond(w, [status |-> 200, total_users |-> Len(users), users |-> users])
        ELSE Respond(w, Error(500, "Failed to fetch users: ServerSelectionTimeoutError"))
    /\ UNCHANGED <<collection, succeeded>>

\* The response has been sent: the worker waits for the next request.
Return(w) ==
    /\ pc[w] = "done"
    /\ pc' = [pc EXCEPT ![w] = "idle"]
    /\ request' = [request EXCEPT ![w] = NoRequest]
    /\ response' = [response EXCEPT ![w] = NoResponse]
    /\ UNCHANGED <<collection, succeeded>>

(***************************************************************************)
(* Specifications                                                          *)
(***************************************************************************)

\* One server process: each request runs to completion before the next starts.
ReceiveNext ==
    /\ Len(collection) < MaxUsers
    /\ \E op \in SignupOps : \E user \in Requests(op) : Receive("w1", op, user)

Next ==
    \/ ReceiveNext
    \/ FindEmail("w1")
    \/ FindPhone("w1")
    \/ InsertOne("w1")
    \/ GetUsersCount("w1")
    \/ GetAllUsers("w1")
    \/ Return("w1")

Spec == Init /\ [][Next]_vars

\* Several server processes: their store operations interleave.
ReceiveConcurrently(w) ==
    /\ Len(collection) + InFlight < MaxConcurrentUsers
    /\ \E op \in SignupOps : \E user \in ConcurrentRequests(op) : Receive(w, op, user)

NextConcurrent ==
    \E w \in Workers :
        \/ ReceiveConcurrently(w)
        \/ FindEmail(w)
        \/ FindPhone(w)
        \/ InsertOne(w)
        \/ GetUsersCount(w)
        \/ GetAllUsers(w)
        \/ Return(w)

SpecConcurrent == Init /\ [][NextConcurrent]_vars

\* One server process, with one body per role on its own address, so that
\* one registration of each role fits: "d@x.pk" and "+92 12345678912" are
\* the promoter's.
EmailD == << 100, 64, 120, 46, 112, 107 >>
PhoneC == << 43, 57, 50, 32, 49, 50, 51, 52, 53, 54, 55, 56, 57, 49, 50 >>

RoleEmail(op) ==
    CASE op = "admin_signup" -> EmailA
      [] op = "student_signup" -> EmailB
      [] op = "school_college_signup" -> EmailC
      [] op = "promoter_signup" -> EmailD

RolePhone(op) ==
    CASE op = "admin_signup" -> PhoneA
      [] op = "student_signup" -> PhoneA
      [] op = "school_college_signup" -> PhoneB
      [] op = "promoter_signup" -> PhoneC

EachRoleRequests(op) ==
    {b \in Bodies(op, {RoleEmail(op)}, {RolePhone(op)}, {ADMIN_SECRET_CODE, AdminCodeLower}) :
        b.email \in {RoleEmail(op), EmailBad}}

ReceiveEachRole ==
    /\ Len(collection) <= Cardinality(SignupOps)
    /\ \E op \in SignupOps : \E user \in EachRoleRequests(op) : Receive("w1", op, user)

NextEachRole ==
    \/ ReceiveEachRole
    \/ FindEmail("w1")
    \/ FindPhone("w1")
    \/ InsertOne("w1")
    \/ GetUsersCount("w1")
    \/ GetAllUsers("w1")
    \/ Return("w1")

SpecEachRole == Init /\ [][NextEachRole]_vars

(***************************************************************************)
(* Properties                                                              *)
(***************************************************************************)

\* The step in which worker w answers its request.
Answers(w) == pc[w] # "done" /\ pc'[w] = "done"

\* The stored records that carry email e, and those that carry phone p.
WithEmail(docs, e) == {i \in 1..Len(docs) : "email" \in DOMAIN docs[i] /\ docs[i].email = e}
WithPhone(docs, p) == {i \in 1..Len(docs) : "phone" \in DOMAIN docs[i] /\ docs[i].phone = p}

\* The answer is not a store failure.
StoreAvailable(r) == r.status # 500

\* docs2 is docs with exactly one record added at the end.
OneAdded(docs, docs2) ==
    /\ Len(docs2) = Len(docs) + 1
    /\ SubSeq(docs2, 1, Len(docs)) = docs

\* C1: a schema-valid admin signup with the configured admin_code whose
\* email and phone match no stored record succeeds when the store is
\* available: exactly one record is added, it has user_type "admin",
\* is_active true and the payload's email, phone and name, and the response
\* carries the new record's id, the payload's email and user_type "admin".
C1_AdminSignupSucceeds ==
    [][\A w \in Workers :
        LET op == request'[w].op
            user == request'[w].user
            r == response'[w]
            new == collection'[Len(collection')]
        IN  (/\ Answers(w)
             /\ op = "admin_signup"
             /\ AdminSignup(user)
             /\ user.admin_code = ADMIN_SECRET_CODE
             /\ WithEmail(collection, user.email) = {}
             /\ WithPhone(collection, user.phone) = {}
             /\ StoreAvailable(r))
            => /\ r.status = 201
               /\ OneAdded(collection, collection')
               /\ new.user_type = "admin" /\ new.is_active = TRUE
               /\ new.email = user.email /\ new.phone = user.phone /\ new.name = user.name
               /\ r.id = StrObjectId(new["_id"])
               /\ r.email = user.email /\ r.user_type = "admin"]_vars

\* An admin has been registered into a collection that already held records.
C1_Witness ==
    \E w \in Workers :
        /\ pc[w] = "done" /\ request[w].op = "admin_signup"
        /\ response[w].status = 201
        /\ Len(collection) >= 2
        /\ collection[Len(collection)].user_type = "admin"
        /\ response[w].id = << 48 + Len(collection) >>

\* C2: with requests handled one after another, a schema-valid signup of any
\* role (with the configured admin_code if admin) whose email is that of a
\* stored record is answered 400 "Email already registered!", also when its
\* phone is registered too; the collection is unchanged and holds exactly
\* one record with that email.
C2_DuplicateEmailRejected ==
    [][\A w \in Workers :
        LET op == request'[w].op
            user == request'[w].user
            r == response'[w]
        IN  (/\ Answers(w)
             /\ op \in SignupOps
             /\ Schema(op, user)
             /\ AdminCodeOk(op, user)
             /\ WithEmail(collection, user.email) # {}
             /\ StoreAvailable(r))
            => /\ r = Error(400, "Email already registered!")
               /\ collection' = collection
               /\ Cardinality(WithEmail(collection', user.email)) = 1]_vars

\* A signup is rejected for its email although its phone is registered too,
\* by a record of another role and another address.
C2_Witness ==
    \E w \in Workers :
        /\ pc[w] = "done" /\ request[w].op \in SignupOps
        /\ response[w] = Error(400, "Email already registered!")
        /\ \E i \in WithEmail(collection, request[w].user.email) :
             collection[i].user_type # UserType(request[w].op)
        /\ \E j \in WithPhone(collection, request[w].user.phone) :
             collection[j].email # request[w].user.email

C3_StudentWithoutPhoneSucceeds ==
    [][\A w \in Workers :
        LET op == request'[w].op
            user == request'[w].user
            r == response'[w]
        IN  (/\ Answers(w)
             /\ op = "student_signup"
             /\ StudentSignup(user)
             /\ user.phone = None
             /\ WithEmail(collection, user.email) = {}
             /\ StoreAvailable(r))
            => /\ r.status = 201
               /\ OneAdded(collection, collection')
               /\ collection'[Len(collection')].email = user.email
               /\ "phone" \notin DOMAIN collection'[Len(collection')]]_vars

\* The password rule of C5 for a length measure: a signup whose password
\* measures below 8 or above 72 is answered 422 in the step that receives
\* it, before any store operation, and the collection is unchanged.
PasswordRejected(Measure(_)) ==
    \A w \in Workers :
        LET op == request'[w].op
            user == request'[w].user
        IN  (/\ op \in SignupOps
             /\ \/ Measure(user.password) < PasswordMinLength
                \/ Measure(user.password) > PasswordMaxLength)
            => /\ pc'[w] = "done"
               /\ response'[w].status = 422
               /\ collection' = collection

\* C5 as stated: the measure is the length of the UTF-8 encoding.
C5_PasswordBytesRejected == [][PasswordRejected(Utf8Len)]_vars

\* C5 amended: the measure is the number of characters (code points).
C5_PasswordCharsRejected == [][PasswordRejected(Len)]_vars

\* A password of 73 characters has been rejected, for an admin signup with a
\* wrong admin_code, with records stored.
C5_Witness ==
    \E w \in Workers :
        /\ pc[w] = "done" /\ request[w].op = "admin_signup"
        /\ response[w].status = 422
        /\ Len(request[w].user.password) = PasswordMaxLength + 1
        /\ request[w].user.admin_code # ADMIN_SECRET_CODE
        /\ collection # << >>

\* C7: with requests handled one after another, no two stored records that
\* have a phone field carry the same phone, whatever their user_type.
C7_PhoneUnique ==
    \A i, j \in 1..Len(collection) :
        (/\ i # j
         /\ "phone" \in DOMAIN collection[i]
         /\ "phone" \in DOMAIN collection[j])
        => collection[i].phone # collection[j].phone

\* Two records of different roles carry phones, and a signup of a third
\* role reusing one of the phones under a new address was rejected.
C7_Witness ==
    \E i, j \in 1..Len(collection) : \E w \in Workers :
        /\ "phone" \in DOMAIN collection[i] /\ "phone" \in DOMAIN collection[j]
        /\ collection[i].user_type # collection[j].user_type
        /\ pc[w] = "done"
        /\ response[w] = Error(400, "Phone number already registered!")
        /\ request[w].user.phone = collection[i].phone
        /\ UserType(request[w].op) \notin {collection[i].user_type, collection[j].user_type}

\* C9: get_all_users returns one entry per stored record, each the stored
\* record without its password (the hash the signup wrote) and with no
\* password_hash field.
C9_ListingHidesPassword ==
    \A w \in Workers :
        (pc[w] = "done" /\ request[w].op = "get_all_users" /\ response[w].status = 200)
        => /\ response[w].total_users = Len(collection)
           /\ Len(response[w].users) = Len(collection)
           /\ \A i \in 1..Len(collection) :
                /\ DOMAIN response[w].users[i] = DOMAIN collection[i] \ {"password"}
                /\ "password" \notin DOMAIN response[w].users[i]
                /\ "password_hash" \notin DOMAIN response[w].users[i]
                /\ response[w].users[i].email = collection[i].email

\* Three records, each stored with a password hash, have been listed.
C9_Witness ==
    \E w \in Workers :
        /\ pc[w] = "done" /\ request[w].op = "get_all_users" /\ response[w].status = 200
        /\ response[w].total_users = 3
        /\ \A i \in 1..Len(collection) :
             /\ "password" \in DOMAIN collection[i]
             /\ collection[i].password = hash_password(PasswordOk)

\* C8: with no request in flight, get_users_count returns for each role
\* the number of successful registrations of that role, and total_users is
\* the number of all successful registrations, the sum of the four counts.
C8_CountsMatchRegistrations ==
    \A w \in Workers :
        (/\ pc[w] = "done" /\ request[w].op = "get_users_count"
         /\ response[w].status = 200
         /\ InFlight = 0)
        => /\ response[w].admins = succeeded["admin_signup"]
           /\ response[w].students = succeeded["student_signup"]
           /\ response[w].schools_colleges = succeeded["school_college_signup"]
           /\ response[w].promoters = succeeded["promoter_signup"]
           /\ response[w].total_users =
                succeeded["admin_signup"] + succeeded["student_signup"]
                + succeeded["school_college_signup"] + succeeded["promoter_signup"]
           /\ response[w].total_users =
                response[w].admins + response[w].students
                + response[w].schools_colleges + response[w].promoters

\* One registration of each role on the empty collection has been counted:
\* total_users 4 and 1 for every role.
C8_Witness ==
    \E w \in Workers :
        /\ pc[w] = "done" /\ request[w].op = "get_users_count"
        /\ \A op \in SignupOps : succeeded[op] = 1
        /\ response[w] = [status |-> 200, total_users |-> 4, admins |-> 1, students |-> 1,
                          schools_colleges |-> 1, promoters |-> 1]

\* Every stored record is active and its user_type is one of the literals.
StoredLiterals(literals) ==
    \A i \in 1..Len(collection) :
        /\ collection[i].is_active = TRUE
        /\ collection[i].user_type \in literals

\* Whenever the collection changes, a signup handler has added one record
\* at its end, of the literal of that endpoint, and no other record changed.
RecordsKept(Literal(_)) ==
    collection' # collection =>
        /\ OneAdded(collection, collection')
        /\ \E w \in Workers :
            /\ pc[w] = "insert_one" /\ pc'[w] = "done"
            /\ collection'[Len(collection')].user_type = Literal(request[w].op)

\* The literal each endpoint stores, as the specification names them.
SpecLiteral(op) ==
    CASE op = "admin_signup" -> "admin"
      [] op = "student_signup" -> "student"
      [] op = "school_college_signup" -> "school_college"
      [] op = "promoter_signup" -> "promoter"

\* The literal each endpoint stores: the institution endpoint's is
\* school/college.
StoredLiteral(op) ==
    CASE op = "admin_signup" -> "admin"
      [] op = "student_signup" -> "student"
      [] op = "school_college_signup" -> "school/college"
      [] op = "promoter_signup" -> "promoter"

\* C10 as stated: every stored record is active and its user_type is one of
\* admin, student, school_college, promoter.
C10_SpecLiterals == StoredLiterals({SpecLiteral(op) : op \in SignupOps})

\* C10 amended: every stored record is active and its user_type is one of
\* admin, student, school/college, promoter, namely the literal of the
\* endpoint that created it, and no later request changes or removes a
\* stored record.
C10_StoredLiteralsKept ==
    /\ [] StoredLiterals({StoredLiteral(op) : op \in SignupOps})
    /\ [][RecordsKept(StoredLiteral)]_vars

\* An institution's record is stored first, another record after it, and a
\* later request has been answered.
C10_Witness ==
    /\ Len(collection) >= 2
    /\ collection[1].user_type = "school/college"
    /\ collection[1]["_id"] = ObjectId(1)
    /\ \E w \in Workers : pc[w] = "done" /\ response[w].status \in {200, 400}

\* C6: requests in flight at the same time interleave their lookups and
\* inserts; the store refuses no insert, so every registration answered 201
\* is stored under the id of the response, whatever else is stored.
C6_EveryAnswered201IsStored ==
    \A w \in Workers :
        (pc[w] = "done" /\ request[w].op \in SignupOps /\ response[w].status = 201)
        => \E i \in 1..Len(collection) :
            /\ StrObjectId(collection[i]["_id"]) = response[w].id
            /\ collection[i].email = request[w].user.email
            /\ collection[i].user_type = UserType(request[w].op)

\* Both workers have been answered 201 for the same email, and the
\* collection holds two records with one email and two with one phone.
C6_Witness ==
    /\ \A w \in Workers : pc[w] = "done" /\ response[w].status = 201
    /\ request["w1"].user.email = request["w2"].user.email
    /\ \E i, j \in 1..Len(collection) :
        i # j /\ collection[i].email = collection[j].email
    /\ \E i, j \in 1..Len(collection) :
        /\ i # j
        /\ "phone" \in DOMAIN collection[i] /\ "phone" \in DOMAIN collection[j]
        /\ collection[i].phone = collection[j].phone

====
